---- MODULE Spec2Model ----
(***************************************************************************)
(* Booking backend: slot capacity, booking numbers, payment confirmation.  *)
(*                                                                         *)
(* The database holds one Activity document with one configured time slot  *)
(* (its time window and its availableSpots counter) and the Booking        *)
(* collection.  Every HTTP handler is an async function: it runs           *)
(* atomically between two awaits, and handlers of different requests       *)
(* interleave at their awaits.  Each action below is one such segment: the *)
(* database operation the await waits for, followed by the synchronous     *)
(* code up to the next await (a handler's first segment is taken together  *)
(* with its first database read).  A Mongoose document read by a handler   *)
(* is a private copy; save() runs the schema validators on the paths the   *)
(* handler modified and the pre('save') hook, and then writes those paths, *)
(* and only those, to the stored document.  The handlers that edit the     *)
(* activity send an update document to the database, which sets the paths  *)
(* it carries.                                                             *)
(***************************************************************************)
EXTENDS Integers, Sequences, FiniteSets, TLC

\* ------------------------------------------------------------------ bounds
MaxCap == 3            \* largest availableSpots a slot is configured with
MaxAsk == 2            \* largest numberOfParticipants a request asks for
MaxBookings == 2       \* bookings the collection may hold
MaxRequests == 4       \* requests served in one behaviour
MaxDay == 1            \* calendar days the clock runs through (0..MaxDay)
MaxStaff == 1          \* staff users who check bookings in
MaxWindows == 2        \* time windows (startTime-endTime) a slot may be given
MaxAge == 2            \* largest minAge / maxAge an update carries
NReq == 2              \* requests in flight at the same time
MinProbeSeq == 9950    \* sequence numbers the booking-number functions
MaxProbeSeq == 10050   \*   are applied to, one by one
MaxPrice == 5          \* largest activity price, in hundreds
MaxGroup == 4          \* largest participant count priced

\* ------------------------------------------------------- program constants
PadWidth == 4          \* padStart(4, '0') and slice(-4) of the booking number
MinSpots == 1          \* timeSlots.availableSpots: min 1
MinParticipants == 1   \* numberOfParticipants: min 1

Req == 1..NReq
BookingIds == 1..MaxBookings
Asks == (-1)..MaxAsk
Days == 0..MaxDay
Staff == 1..MaxStaff
Windows == 1..MaxWindows

NoId == 0              \* null for an order id, a payment id, a user id
NoDate == -1           \* null for a date
NoToken == <<>>        \* null for qrData
Radix == 16            \* values of one hex character of a QR token

\* paymentMethod enum of the Booking schema (null is allowed too)
PaymentMethodEnum == {"UPI", "Card", "NetBanking", "Wallet", "null"}
\* what the gateway reports as the method of a payment, or nothing at all
GatewayMethods == {"UPI", "none"}
\* razorpay.payments.fetch throws
FetchFailed == "fetch failed"
\* the events a webhook delivery may carry
WebhookEvents == {"payment.captured", "payment.failed", "order.paid"}

VARIABLES
  availableSpots,   \* Activity.timeSlots[i].availableSpots, as stored
  slotWindow,       \* Activity.timeSlots[i].startTime and endTime
  originalSpots,    \* the value the slot was configured with
  maxParticipants,  \* Activity.maxParticipants
  startDate,        \* Activity.startDate
  endDate,          \* Activity.endDate
  minAge,           \* Activity.minAge
  maxAge,           \* Activity.maxAge
  status,           \* Activity.status
  isAvailable,      \* Activity.isAvailable
  activityExists,   \* the Activity document is in its collection
  servicesFail,     \* the gateway, QR image or mail service may fail
  bookings,         \* the Booking collection, in insertion order (_id = index)
  req,              \* the handlers in flight: position and private copies
  today,            \* the server's calendar day
  nextOrder,        \* order ids the gateway has issued so far
  nextToken,        \* QR tokens generated so far (each has a fresh IV)
  notified,         \* confirmation mails delivered, per booking
  released,         \* times a booking's seats were added back to the slot
  started,          \* requests served so far
  lastResp,         \* the response most recently sent
  probe             \* input and result of a function applied on its own

vars == <<availableSpots, slotWindow, originalSpots, maxParticipants,
          startDate, endDate, minAge, maxAge, status, isAvailable,
          activityExists, servicesFail, bookings, req, today, nextOrder,
          nextToken, notified, released, started, lastResp, probe>>

\* what the handlers of bookings, payments and QR codes do not write
fixed == <<slotWindow, originalSpots, maxParticipants, startDate, endDate,
           minAge, maxAge, status, isAvailable, activityExists, servicesFail,
           probe>>

\* ------------------------------------------------------- booking numbers
RECURSIVE Digits(_)
\* String(sequence): the decimal digits of a natural number
Digits(k) == IF k < 10 THEN <<k>> ELSE Append(Digits(k \div 10), k % 10)

RECURSIVE PadStart(_, _)
\* s.padStart(w, '0')
PadStart(ds, w) == IF Len(ds) >= w THEN ds ELSE PadStart(<<0>> \o ds, w)

\* s.slice(-w): the last w characters
SliceLast(ds, w) ==
  IF Len(ds) <= w THEN ds ELSE SubSeq(ds, Len(ds) - w + 1, Len(ds))

RECURSIVE ParseInt(_)
\* parseInt of a string of digits
ParseInt(ds) ==
  IF Len(ds) = 0 THEN 0
  ELSE 10 * ParseInt(SubSeq(ds, 1, Len(ds) - 1)) + ds[Len(ds)]

\* `BK-${year}${month}${day}-${String(sequence).padStart(4, '0')}`: the date
\* key and the characters after the last dash
FormatBookingNumber(day, sequence) ==
  [dateKey |-> day, suffix |-> PadStart(Digits(sequence), PadWidth)]

NoNumber == [dateKey |-> NoDate, suffix |-> <<>>]

\* parseInt(lastBooking.bookingNumber.slice(-4))
LastSequence(bookingNumber) ==
  ParseInt(SliceLast(bookingNumber.suffix, PadWidth))

\* let sequence = 1; if (lastBooking ...) sequence = lastSequence + 1
NextSequence(lastNumber) ==
  IF lastNumber = NoNumber THEN 1 ELSE LastSequence(lastNumber) + 1

\* a Date: the calendar day, whether it is the last millisecond of that day
\* (23:59:59.999), and the instant within the run of the server (instants
\* are compared, never printed)
Stamp(day, lastMs, instant) ==
  [day |-> day, lastMs |-> lastMs, instant |-> instant]

NoStamp == Stamp(NoDate, FALSE, 0)

\* Booking.findOne({createdAt: {$gte: todayStart, $lt: todayEnd}})
\* .sort({createdAt: -1}), todayEnd being 23:59:59.999 of `day`: the number
\* of the booking whose createdAt is the latest among those created on `day`
\* before its last millisecond
FindLastBookingNumber(bs, day) ==
  LET idx == {i \in 1..Len(bs) : /\ bs[i].createdAt.day = day
                                  /\ ~bs[i].createdAt.lastMs}
  IN IF idx = {} THEN NoNumber
     ELSE bs[CHOOSE i \in idx : \A j \in idx :
               bs[j].createdAt.instant <= bs[i].createdAt.instant].bookingNumber

\* --------------------------------------------------------------- QR tokens
\* The payload of a QR code is a record; JSON.stringify writes it as a
\* string and JSON.parse reads it back.  A string is a sequence of
\* characters 0 .. Radix-1.  The payload's fields are written in the order
\* of the object literal, the booking number's characters last.
Stringify(data) ==
  <<data.bookingId, data.numberOfParticipants, data.bookingDate,
    data.timestamp, data.bookingNumber.dateKey>>
  \o data.bookingNumber.suffix

\* the fields before the booking number's characters
HeadLen == 5

\* JSON.parse accepts a string only if it has the shape Stringify writes
Parsable(str) ==
  /\ Len(str) >= HeadLen + PadWidth
  /\ \A i \in (HeadLen + 1)..Len(str) : str[i] < 10

\* JSON.parse
Parse(str) ==
  [bookingId |-> str[1], numberOfParticipants |-> str[2],
   bookingDate |-> str[3], timestamp |-> str[4],
   bookingNumber |-> [dateKey |-> str[5],
                      suffix |-> SubSeq(str, HeadLen + 1, Len(str))]]

\* the block cipher under the key derived from QR_SECRET: a permutation of
\* the characters, and its inverse
BlockEncrypt(x) == (5 * x + 3) % Radix
BlockDecrypt(y) == (13 * (y + Radix - 3)) % Radix

\* the padding cipher.final appends to the plaintext
PadChar == 1

RECURSIVE CbcEncrypt(_, _)
\* cipher.update + cipher.final in CBC mode: each character is combined with
\* the previous ciphertext character (the IV for the first) and encrypted
CbcEncrypt(plain, prev) ==
  IF plain = <<>> THEN <<>>
  ELSE LET c == BlockEncrypt((Head(plain) + prev) % Radix)
       IN <<c>> \o CbcEncrypt(Tail(plain), c)

RECURSIVE CbcDecrypt(_, _)
\* decipher.update in CBC mode
CbcDecrypt(cipher, prev) ==
  IF cipher = <<>> THEN <<>>
  ELSE <<(BlockDecrypt(Head(cipher)) + Radix - prev) % Radix>>
       \o CbcDecrypt(Tail(cipher), Head(cipher))

\* a decipher that is not given the token's IV
Decipher_WithoutIV(token) == CbcDecrypt(Tail(token), 0)

\* the plaintext of a token, padding included: the token is split into the
\* IV and the ciphertext
Decipher(token) == CbcDecrypt(Tail(token), Head(token))

\* the object generateQRData encrypts for booking b
QRPayload(b, doc, now) ==
  [bookingId |-> b, numberOfParticipants |-> doc.n,
   bookingDate |-> doc.bookingDate, timestamp |-> now,
   bookingNumber |-> doc.bookingNumber]

\* generateQRData from the payload on: `${iv}:${encrypted}`
EncryptQRData(data, iv) ==
  <<iv>> \o CbcEncrypt(Append(Stringify(data), PadChar), iv)

\* generateQRData(booking), iv being crypto.randomBytes(16)
generateQRData(b, doc, now, iv) == EncryptQRData(QRPayload(b, doc, now), iv)

\* decryptQRData does not throw: the token has an IV and a ciphertext,
\* decipher.final finds the padding, JSON.parse accepts the plaintext
Decryptable(token) ==
  /\ Len(token) >= 2
  /\ LET padded == Decipher(token)
     IN /\ padded[Len(padded)] = PadChar
        /\ Parsable(SubSeq(padded, 1, Len(padded) - 1))

\* decryptQRData(encryptedData), for a token it does not throw on
decryptQRData(token) ==
  LET padded == Decipher(token)
  IN Parse(SubSeq(padded, 1, Len(padded) - 1))

\* ------------------------------------------------------ booking documents
\* the document Booking.create stores
NewBooking(number, n, createdAt, bookingDate, selectedTimeSlot) ==
  [bookingNumber |-> number, n |-> n, createdAt |-> createdAt,
   bookingDate |-> bookingDate, selectedTimeSlot |-> selectedTimeSlot,
   bookingStatus |-> "Initiated", paymentStatus |-> "Pending",
   razorpayOrderId |-> NoId, razorpayPaymentId |-> NoId,
   paymentMethod |-> "null", paidAt |-> NoDate, qrData |-> NoToken,
   checkedIn |-> FALSE, checkInTime |-> NoDate, checkInBy |-> NoId]

NoDoc == NewBooking(NoNumber, 0, NoStamp, NoDate, 0)

\* the paths the handlers assign
BookingFields == {"bookingStatus", "paymentStatus", "razorpayOrderId",
                  "razorpayPaymentId", "paymentMethod", "paidAt", "qrData",
                  "checkedIn", "checkInTime", "checkInBy"}

\* booking.save(): the paths whose value the handler changed in its copy
\* (orig -> doc) are written to the stored document; the others are left
\* alone.  A path the handler assigned a new Date() to (dates) is changed
\* whatever the day, since no two Dates are the same instant.
SaveBooking(bs, b, orig, doc, dates) ==
  [bs EXCEPT ![b] = [f \in DOMAIN bs[b] |->
      IF f \in BookingFields /\ (doc[f] # orig[f] \/ f \in dates)
      THEN doc[f] ELSE bs[b][f]]]

\* the validators Booking.create runs: numberOfParticipants min 1, and the
\* patterns on the customer's e-mail and phone (docOk)
BookingValid(n, docOk) == n >= MinParticipants /\ docOk

\* the validator booking.save() runs on paymentMethod
PaymentValid(doc) == doc.paymentMethod \in PaymentMethodEnum

\* a number the document or the update document does not carry (null)
NoValue == -2

\* the validator activity.save() runs on the modified slot
ActivityValid(spots) == spots >= MinSpots

\* pre('save') of the Activity schema, on the document the handler read:
\* "Validate date range" and "Validate age range" (a null or 0 age is not
\* looked at); the message of the error thrown, "" if none
PreSaveError(docStart, docEnd, docMinAge, docMaxAge) ==
  IF docEnd < docStart THEN "End date must be after start date"
  ELSE IF /\ docMinAge # NoValue /\ docMinAge # 0
          /\ docMaxAge # NoValue /\ docMaxAge # 0
          /\ docMaxAge < docMinAge
  THEN "Max age must be greater than or equal to min age"
  ELSE ""

\* the unique index on bookingNumber
NumberTaken(bs, number) == \E i \in 1..Len(bs) : bs[i].bookingNumber = number

\* ------------------------------------------------------ activity updates
\* the _id of the activity
ActivityId == 1

\* the status enum of the Activity schema
ActivityStatuses == {"Active", "Inactive", "Draft", "Cancelled"}

\* a body without timeSlots
NoSlots == <<>>

\* { startTime, endTime, availableSpots } of one element of timeSlots
Slot(window, spots) == [window |-> window, availableSpots |-> spots]

\* the update document handed to findByIdAndUpdate or updateMany: timeSlots
\* (the whole array), maxParticipants, the dates, the ages, the status and
\* isAvailable, each one present or not
NoUpdate == [timeSlots |-> NoSlots, maxParticipants |-> NoValue,
             startDate |-> NoDate, endDate |-> NoDate,
             minAge |-> NoValue, maxAge |-> NoValue,
             status |-> "", isAvailable |-> {}]

\* { status, isAvailable: status === 'Active', updatedBy }
StatusUpdate(newStatus) ==
  [NoUpdate EXCEPT !.status = newStatus,
                   !.isAvailable = {newStatus = "Active"}]

\* pre('findOneAndUpdate'): "Validate date range" on update.startDate ||
\* docToUpdate.startDate and update.endDate || docToUpdate.endDate, then
\* "Validate age range" on the ages of the update or else of the document;
\* the message of the error thrown, "" if none
PreUpdateError(update, docStart, docEnd, docMinAge, docMaxAge) ==
  LET start == IF update.startDate # NoDate THEN update.startDate
               ELSE docStart
      end == IF update.endDate # NoDate THEN update.endDate ELSE docEnd
      min == IF update.minAge # NoValue THEN update.minAge ELSE docMinAge
      max == IF update.maxAge # NoValue THEN update.maxAge ELSE docMaxAge
  IN IF start # NoDate /\ end # NoDate /\ end < start
     THEN "End date must be after start date"
     ELSE IF min # NoValue /\ max # NoValue /\ max < min
     THEN "Max age must be greater than or equal to min age"
     ELSE ""

\* runValidators: true of updateActivity, on the paths the update carries:
\* timeSlots.availableSpots min 1, maxParticipants min 1, minAge min 0, the
\* status enum
UpdateValid(update) ==
  /\ \A i \in 1..Len(update.timeSlots) :
       update.timeSlots[i].availableSpots >= MinSpots
  /\ update.maxParticipants = NoValue \/ update.maxParticipants >= 1
  /\ update.minAge = NoValue \/ update.minAge >= 0
  /\ update.status = "" \/ update.status \in ActivityStatuses

\* ------------------------------------------------------------- requests
Idle == [op |-> "idle", pc |-> "idle", bid |-> 0, n |-> 0, docOk |-> TRUE,
         date |-> NoDate, selectedTimeSlot |-> 0, user |-> NoId,
         now |-> NoDate, createdAt |-> NoStamp, token |-> NoToken,
         spotsRead |-> 0, preSaveError |-> "", populated |-> FALSE,
         number |-> NoNumber, orig |-> NoDoc,
         orderId |-> NoId, paymentId |-> NoId, method |-> "null",
         event |-> "none", isAuthentic |-> FALSE, update |-> NoUpdate]

\* res.status(code).json({message}) of a request on booking bid
Resp(op, code, msg, bid) ==
  [op |-> op, status |-> code, msg |-> msg, bid |-> bid]

InFlight(op) == Cardinality({r \in Req : req[r].op = op})

\* a new request is taken by the first handler slot that is free
CanStart(r) ==
  /\ req[r].pc = "idle"
  /\ \A q \in Req : q < r => req[q].pc # "idle"
  /\ started < MaxRequests

Finish(r, code, msg, bid) ==
  /\ req' = [req EXCEPT ![r] = Idle]
  /\ lastResp' = Resp(req[r].op, code, msg, bid)

Reject(r, op, code, msg, bid) ==
  /\ req' = [req EXCEPT ![r] = Idle]
  /\ lastResp' = Resp(op, code, msg, bid)

\* ---------------------------------------------------------- createBooking
\* step 7: activity.timeSlots.find(slot => slot.startTime === ... &&
\* slot.endTime === ...): the slot is found by its time window alone, so
\* the counter a booking for `date` is checked against is the slot's one
\* availableSpots, whatever the date
SlotSpots(spots, date) == spots

\* steps 1-10: the activity is read and the request checked
createBooking_Begin(r, n, docOk, date, selectedTimeSlot) ==
  /\ CanStart(r)
  /\ Len(bookings) + InFlight("createBooking") < MaxBookings
  /\ started' = started + 1
  /\ IF n = 0
     THEN Reject(r, "createBooking", 400, "All fields are required", 0)
     ELSE IF ~activityExists
     THEN Reject(r, "createBooking", 404, "Activity not found", 0)
     ELSE IF status # "Active" \/ ~isAvailable
     THEN Reject(r, "createBooking", 400,
                 "Activity is not available for booking", 0)
     ELSE IF date < today
     THEN Reject(r, "createBooking", 400, "Cannot book for past dates", 0)
     ELSE IF date < startDate \/ date > endDate
     THEN Reject(r, "createBooking", 400,
                 "Activity is not available on this date", 0)
     ELSE IF selectedTimeSlot # slotWindow
     THEN Reject(r, "createBooking", 400, "Invalid time slot", 0)
     ELSE IF SlotSpots(availableSpots, date) < n
     THEN Reject(r, "createBooking", 400, "Not enough spots available", 0)
     ELSE IF n > maxParticipants
     THEN Reject(r, "createBooking", 400, "Maximum participants allowed", 0)
     ELSE /\ req' = [req EXCEPT ![r] = [Idle EXCEPT !.op = "createBooking",
                       !.pc = "cb_saveActivity", !.n = n, !.docOk = docOk,
                       !.date = date,
                       !.selectedTimeSlot = selectedTimeSlot,
                       !.preSaveError = PreSaveError(startDate, endDate,
                                                     minAge, maxAge),
                       !.spotsRead = SlotSpots(availableSpots, date)]]
          /\ UNCHANGED lastResp
  /\ UNCHANGED <<availableSpots, bookings, today, nextOrder, nextToken,
                 notified, released, fixed>>

\* step 11: timeSlots[slotIndex].availableSpots -= n; await activity.save()
\* (which validates, runs the pre('save') hook on the document the handler
\* read, then updates the stored document, and throws when that is gone);
\* then step 12 up to its await: now = new Date(), the range of today
createBooking_SaveActivity(r) ==
  /\ req[r].pc = "cb_saveActivity"
  /\ LET spots == req[r].spotsRead - req[r].n
     IN IF ~ActivityValid(spots)
        THEN /\ Finish(r, 400, "Validation Error", 0)
             /\ UNCHANGED availableSpots
        ELSE IF req[r].preSaveError # "" \/ ~activityExists
        THEN /\ Finish(r, 500, "Error creating booking", 0)
             /\ UNCHANGED availableSpots
        ELSE /\ availableSpots' = spots
             /\ req' = [req EXCEPT ![r].pc = "cb_findLast",
                                    ![r].now = today]
             /\ UNCHANGED lastResp
  /\ UNCHANGED <<bookings, today, nextOrder, nextToken, notified, released,
                 started, fixed>>

\* the instant of a new Date(): later than the createdAt of every booking
\* stored and of every Booking.create in flight
LaterInstant(bs, rq) ==
  LET taken == {bs[i].createdAt.instant : i \in 1..Len(bs)}
               \cup {rq[q].createdAt.instant : q \in DOMAIN rq}
  IN 1 + CHOOSE k \in taken \cup {0} : \A j \in taken : j <= k

\* a createdAt already given is the last millisecond of `day`: a Date taken
\* on that day from then on is that millisecond too
LastMsSeen(bs, rq, day) ==
  LET given == {bs[i].createdAt : i \in 1..Len(bs)}
               \cup {rq[q].createdAt : q \in DOMAIN rq}
  IN \E at \in given : at.day = day /\ at.lastMs

\* step 12: the last booking of the day `now` was read on; the booking
\* number; step 13 up to its await: Booking.create is called, which stamps
\* createdAt (lastMs: the clock shows 23:59:59.999)
createBooking_FindLast(r, lastMs) ==
  /\ req[r].pc = "cb_findLast"
  /\ LastMsSeen(bookings, req, today) => lastMs
  /\ req' = [req EXCEPT ![r].pc = "cb_create",
               ![r].number = FormatBookingNumber(req[r].now,
                    NextSequence(FindLastBookingNumber(bookings, req[r].now))),
               ![r].createdAt = Stamp(today, lastMs,
                                      LaterInstant(bookings, req))]
  /\ UNCHANGED <<availableSpots, bookings, today, nextOrder, nextToken,
                 notified, released, started, lastResp, fixed>>

\* step 13: Booking.create validates and inserts, then the response or the
\* catch block
createBooking_Create(r) ==
  /\ req[r].pc = "cb_create"
  /\ IF ~BookingValid(req[r].n, req[r].docOk)
     THEN /\ Finish(r, 400, "Validation Error", 0)
          /\ UNCHANGED bookings
     ELSE IF NumberTaken(bookings, req[r].number)
     THEN /\ Finish(r, 500, "Error creating booking", 0)
          /\ UNCHANGED bookings
     ELSE /\ bookings' = Append(bookings,
                           NewBooking(req[r].number, req[r].n,
                                      req[r].createdAt, req[r].date,
                                      req[r].selectedTimeSlot))
          /\ Finish(r, 201, "Booking initiated successfully",
                    Len(bookings) + 1)
  /\ UNCHANGED <<availableSpots, today, nextOrder, nextToken, notified,
                 released, started, fixed>>

\* ---------------------------------------------- restoring available spots
\* "Restore available spots" of cancelBooking and of the payment.failed
\* webhook: const activity = await Activity.findById(booking.activity);
\* if (activity) the booking's slot is looked up by its time window and,
\* if (slotIndex !== -1), its seats are added back and activity.save is
\* called; else the handler goes on
restoreSpots_Find(r) ==
  /\ req[r].pc = "rs_find"
  /\ IF activityExists /\ slotWindow = req[r].orig.selectedTimeSlot
     THEN /\ req' = [req EXCEPT ![r].pc = "rs_save",
                                 ![r].spotsRead = availableSpots,
                                 ![r].preSaveError =
                                    PreSaveError(startDate, endDate, minAge,
                                                 maxAge)]
          /\ UNCHANGED lastResp
     ELSE IF req[r].op = "cancelBooking"
     THEN /\ req' = [req EXCEPT ![r].pc = "cn_saveBooking"]
          /\ UNCHANGED lastResp
     ELSE Finish(r, 200, "Webhook received", req[r].bid)
  /\ UNCHANGED <<availableSpots, bookings, today, nextOrder, nextToken,
                 notified, released, started, fixed>>

\* the catch block of the handler whose activity.save() threw
RestoreError(op) ==
  IF op = "cancelBooking" THEN "Error cancelling booking"
  ELSE "Webhook processing error"

\* timeSlots[slotIndex].availableSpots += booking.numberOfParticipants;
\* await activity.save(), which validates, runs the pre('save') hook on
\* the document the handler read and updates the stored document, or
\* throws; cancelBooking goes on to save the booking, the webhook answers
restoreSpots_Save(r) ==
  /\ req[r].pc = "rs_save"
  /\ LET spots == req[r].spotsRead + req[r].orig.n
     IN IF ActivityValid(spots) /\ req[r].preSaveError = ""
           /\ activityExists
        THEN /\ availableSpots' = spots
             /\ released' = [released EXCEPT ![req[r].bid] = @ + 1]
             /\ IF req[r].op = "cancelBooking"
                THEN /\ req' = [req EXCEPT ![r].pc = "cn_saveBooking"]
                     /\ UNCHANGED lastResp
                ELSE Finish(r, 200, "Webhook received", req[r].bid)
        ELSE /\ Finish(r, 500, RestoreError(req[r].op), req[r].bid)
             /\ UNCHANGED <<availableSpots, released>>
  /\ UNCHANGED <<bookings, today, nextOrder, nextToken, notified, started,
                 fixed>>

\* ---------------------------------------------------------- cancelBooking
\* "Can only cancel if payment NOT completed"
CannotCancel(doc) == doc.paymentStatus = "Completed"

\* Booking.findById and the check on paymentStatus
cancelBooking_Begin(r, b) ==
  /\ CanStart(r)
  /\ started' = started + 1
  /\ IF b > Len(bookings)
     THEN Reject(r, "cancelBooking", 404, "Booking not found", 0)
     ELSE IF CannotCancel(bookings[b])
     THEN Reject(r, "cancelBooking", 400, "Cannot cancel completed bookings", b)
     ELSE /\ req' = [req EXCEPT ![r] = [Idle EXCEPT !.op = "cancelBooking",
                       !.pc = "rs_find", !.bid = b, !.orig = bookings[b]]]
          /\ UNCHANGED lastResp
  /\ UNCHANGED <<availableSpots, bookings, today, nextOrder, nextToken,
                 notified, released, fixed>>

\* booking.bookingStatus = 'Cancelled'; await booking.save()
cancelBooking_SaveBooking(r) ==
  /\ req[r].pc = "cn_saveBooking"
  /\ bookings' = SaveBooking(bookings, req[r].bid, req[r].orig,
                   [req[r].orig EXCEPT !.bookingStatus = "Cancelled"], {})
  /\ Finish(r, 200, "Booking cancelled successfully", req[r].bid)
  /\ UNCHANGED <<availableSpots, today, nextOrder, nextToken, notified,
                 released, started, fixed>>

\* ----------------------------------------------------- createPaymentOrder
\* a check of the payment status alone
PayRefusal_PaymentOnly(doc) ==
  IF doc.paymentStatus # "Pending" THEN "Payment already processed" ELSE ""

\* "Validate booking status": the message of the check that turns the
\* booking down, "" when it may be paid
PayRefusal(doc) ==
  IF doc.bookingStatus # "Initiated" THEN "This booking cannot be paid"
  ELSE IF doc.paymentStatus # "Pending" THEN "Payment already processed"
  ELSE ""

\* Booking.findById and the two status checks; razorpay.orders.create is
\* called
createPaymentOrder_Begin(r, b) ==
  /\ CanStart(r)
  /\ started' = started + 1
  /\ IF b > Len(bookings)
     THEN Reject(r, "createPaymentOrder", 404, "Booking not found", 0)
     ELSE IF PayRefusal(bookings[b]) # ""
     THEN Reject(r, "createPaymentOrder", 400, PayRefusal(bookings[b]), b)
     ELSE /\ req' = [req EXCEPT ![r] = [Idle EXCEPT
                       !.op = "createPaymentOrder", !.pc = "po_order",
                       !.bid = b, !.orig = bookings[b]]]
          /\ UNCHANGED lastResp
  /\ UNCHANGED <<availableSpots, bookings, today, nextOrder, nextToken,
                 notified, released, fixed>>

\* await razorpay.orders.create(options): the gateway issues an order, or
\* rejects and the catch block answers 500
createPaymentOrder_Order(r, created) ==
  /\ req[r].pc = "po_order"
  /\ ~created => servicesFail
  /\ IF created
     THEN /\ nextOrder' = nextOrder + 1
          /\ req' = [req EXCEPT ![r].pc = "po_save",
                                 ![r].orderId = nextOrder + 1]
          /\ UNCHANGED lastResp
     ELSE /\ Finish(r, 500, "Error creating payment order", req[r].bid)
          /\ UNCHANGED nextOrder
  /\ UNCHANGED <<availableSpots, bookings, today, nextToken, notified,
                 released, started, fixed>>

\* booking.razorpayOrderId = order.id; await booking.save()
createPaymentOrder_Save(r) ==
  /\ req[r].pc = "po_save"
  /\ bookings' = SaveBooking(bookings, req[r].bid, req[r].orig,
                   [req[r].orig EXCEPT !.razorpayOrderId = req[r].orderId],
                   {})
  /\ Finish(r, 200, "Payment order created successfully", req[r].bid)
  /\ UNCHANGED <<availableSpots, today, nextOrder, nextToken, notified,
                 released, started, fixed>>

\* ------------------------------------------- confirming a paid booking
\* paymentDetails.method || 'Unknown' and payload.method || 'Unknown'
MethodOrUnknown(method) == IF method = "none" THEN "Unknown" ELSE method

\* the catch around razorpay.payments.fetch: paymentDetails = {method:
\* 'Unknown', status: 'captured'}
FetchedMethod(fetched) == IF fetched = FetchFailed THEN "Unknown" ELSE fetched

\* "Update booking with payment info": the handler's copy after
\* booking.paymentStatus = 'Completed'; booking.bookingStatus = 'Confirmed';
\* ...; booking.paidAt = new Date()
Confirmed(orig, paymentId, method, day) ==
  [orig EXCEPT !.paymentStatus = "Completed", !.bookingStatus = "Confirmed",
               !.razorpayPaymentId = paymentId, !.paymentMethod = method,
               !.paidAt = day]

\* what the confirming handler answers after generateAndSendQR returned
AfterQR(op) ==
  IF op = "verifyPayment" THEN "Payment verified successfully"
  ELSE "Webhook processed successfully"

\* the catch block of the confirming handler
ConfirmError(op) ==
  IF op = "verifyPayment" THEN "Error verifying payment"
  ELSE "Webhook processing error"

\* a generateAndSendQR whose catch block throws the error on
IssueOutcome_Rethrown(threw) == IF threw THEN "thrown" ELSE "returned"

\* generateAndSendQR is try { ... } catch (error) { console.error(...) }
\* ("Don't throw - booking is already confirmed"): the call returns
\* whether or not a step of its try block threw
IssueOutcome(threw) == "returned"

\* the confirming handler after await qrController.generateAndSendQR(
\* booking): its res.status(200), or its own catch block had the call thrown
AfterIssue(r, outcome) ==
  IF outcome = "thrown"
  THEN Finish(r, 500, ConfirmError(req[r].op), req[r].bid)
  ELSE Finish(r, 200, AfterQR(req[r].op), req[r].bid)

\* await booking.save() of verifyPayment and of the payment.captured
\* webhook (paidAt is the new Date() the handler took before the save);
\* then generateAndSendQR up to its first await: qrData =
\* generateQRData(booking) with Date.now() and a fresh IV, and
\* QRCode.toDataURL is called; generateQRData throws on
\* booking.activity._id when populate found no activity, which the catch
\* of generateAndSendQR logs, and the confirming handler answers
confirm_Save(r) ==
  /\ req[r].pc = "cf_save"
  /\ LET doc == Confirmed(req[r].orig, req[r].paymentId, req[r].method,
                          req[r].now)
     IN IF ~PaymentValid(doc)
        THEN /\ Finish(r, 500, ConfirmError(req[r].op), req[r].bid)
             /\ UNCHANGED <<bookings, nextToken>>
        ELSE /\ bookings' = SaveBooking(bookings, req[r].bid, req[r].orig, doc,
                                         {"paidAt"})
             /\ IF req[r].populated
                THEN /\ nextToken' = nextToken + 1
                     /\ req' = [req EXCEPT ![r].pc = "qr_image",
                                  ![r].orig = doc,
                                  ![r].token = generateQRData(req[r].bid, doc,
                                                 today, (nextToken + 1) % Radix)]
                     /\ UNCHANGED lastResp
                ELSE /\ AfterIssue(r, IssueOutcome(TRUE))
                     /\ UNCHANGED nextToken
  /\ UNCHANGED <<availableSpots, today, nextOrder, notified, released,
                 started, fixed>>

\* await QRCode.toDataURL(qrData): the image, or an error that the catch of
\* generateAndSendQR logs, after which the confirming handler answers
generateAndSendQR_Image(r, drawn) ==
  /\ req[r].pc = "qr_image"
  /\ ~drawn => servicesFail
  /\ IF drawn
     THEN /\ req' = [req EXCEPT ![r].pc = "qr_save"]
          /\ UNCHANGED lastResp
     ELSE AfterIssue(r, IssueOutcome(TRUE))
  /\ UNCHANGED <<availableSpots, bookings, today, nextOrder, nextToken,
                 notified, released, started, fixed>>

\* booking.qrData = qrData; booking.qrImage = qrImage; await booking.save();
\* emailService.sendBookingConfirmation is called
generateAndSendQR_Save(r) ==
  /\ req[r].pc = "qr_save"
  /\ LET doc == [req[r].orig EXCEPT !.qrData = req[r].token]
     IN /\ bookings' = SaveBooking(bookings, req[r].bid, req[r].orig, doc, {})
        /\ req' = [req EXCEPT ![r].pc = "qr_email", ![r].orig = doc]
  /\ UNCHANGED <<availableSpots, today, nextOrder, nextToken, notified,
                 released, started, lastResp, fixed>>

\* await emailService.sendBookingConfirmation(booking): the mail is sent, or
\* the service logs its error; whatsappService.sendBookingConfirmation is
\* called
generateAndSendQR_Email(r, sent) ==
  /\ req[r].pc = "qr_email"
  /\ ~sent => servicesFail
  /\ notified' = IF sent THEN [notified EXCEPT ![req[r].bid] = @ + 1]
                 ELSE notified
  /\ req' = [req EXCEPT ![r].pc = "qr_whatsapp"]
  /\ UNCHANGED <<availableSpots, bookings, today, nextOrder, nextToken,
                 released, started, lastResp, fixed>>

\* await whatsappService.sendBookingConfirmation(booking), which logs its
\* errors; generateAndSendQR returns and the confirming handler answers
generateAndSendQR_WhatsApp(r) ==
  /\ req[r].pc = "qr_whatsapp"
  /\ AfterIssue(r, IssueOutcome(FALSE))
  /\ UNCHANGED <<availableSpots, bookings, today, nextOrder, nextToken,
                 notified, released, started, fixed>>

\* ---------------------------------------------------------- verifyPayment
\* a handler that also cancels the booking whose payment failed
MarkFailed_Cancelling(orig) ==
  [orig EXCEPT !.paymentStatus = "Failed", !.bookingStatus = "Cancelled"]

\* booking.paymentStatus = 'Failed' in the handler's copy
MarkFailed(orig) == [orig EXCEPT !.paymentStatus = "Failed"]

\* a handler that goes on to confirm whatever the signature check found
AfterSignature_Unchecked(isAuthentic) == "vp_fetch"

\* if (!isAuthentic) { mark the payment Failed } else go on to fetch the
\* payment details and confirm
AfterSignature(isAuthentic) ==
  IF isAuthentic THEN "vp_fetch" ELSE "vp_saveFailed"

\* Booking.findById with populate('activity') and the signature check
\* (sigOk: the supplied signature is the HMAC of orderId|paymentId);
\* razorpay.payments.fetch or, on a mismatch, booking.save is called
verifyPayment_Begin(r, b, orderId, paymentId, sigOk) ==
  /\ CanStart(r)
  /\ started' = started + 1
  /\ IF b > Len(bookings)
     THEN Reject(r, "verifyPayment", 404, "Booking not found", 0)
     ELSE /\ req' = [req EXCEPT ![r] = [Idle EXCEPT !.op = "verifyPayment",
                       !.pc = AfterSignature(sigOk), !.isAuthentic = sigOk,
                       !.bid = b, !.orig = bookings[b],
                       !.populated = activityExists,
                       !.orderId = orderId, !.paymentId = paymentId]]
          /\ UNCHANGED lastResp
  /\ UNCHANGED <<availableSpots, bookings, today, nextOrder, nextToken,
                 notified, released, fixed>>

\* await razorpay.payments.fetch(razorpay_payment_id), or its catch; then
\* "Update booking with payment info" with paidAt = new Date()
verifyPayment_Fetch(r, fetched) ==
  /\ req[r].pc = "vp_fetch"
  /\ req' = [req EXCEPT ![r].pc = "cf_save", ![r].now = today,
               ![r].method = MethodOrUnknown(FetchedMethod(fetched))]
  /\ UNCHANGED <<availableSpots, bookings, today, nextOrder, nextToken,
                 notified, released, started, lastResp, fixed>>

\* signature mismatch: booking.paymentStatus = 'Failed'; await booking.save()
verifyPayment_SaveFailed(r) ==
  /\ req[r].pc = "vp_saveFailed"
  /\ bookings' = SaveBooking(bookings, req[r].bid, req[r].orig,
                   MarkFailed(req[r].orig), {})
  /\ Finish(r, 400, "Payment verification failed", req[r].bid)
  /\ UNCHANGED <<availableSpots, today, nextOrder, nextToken, notified,
                 released, started, fixed>>

\* ---------------------------------------------------------- paymentWebhook
\* Booking.findOne({ razorpayOrderId }): the first booking holding the order
\* id (0: none)
FindByOrder(bs, orderId) ==
  LET idx == {i \in 1..Len(bs) : bs[i].razorpayOrderId = orderId}
  IN IF idx = {} THEN 0 ELSE CHOOSE i \in idx : \A j \in idx : i <= j

\* if (booking && booking.paymentStatus === 'Pending')
StillPending(bs, b) == b # 0 /\ bs[b].paymentStatus = "Pending"

\* a handler that does not look at the signature
WebhookRefused_Never(sigOk) == FALSE

\* if (!isAuthentic) return res.status(400): webhookSignature is not the
\* HMAC of JSON.stringify(req.body)
WebhookRefused(sigOk) == ~sigOk

\* the webhook up to its first save: the signature check (sigOk), the event
\* type, the booking found by order id (payment.captured populates its
\* activity), the already-processed check
paymentWebhook_Begin(r, event, orderId, paymentId, sigOk, method) ==
  /\ CanStart(r)
  /\ started' = started + 1
  /\ LET b == FindByOrder(bookings, orderId)
         call == [Idle EXCEPT !.op = "paymentWebhook", !.bid = b,
                    !.orig = IF b = 0 THEN NoDoc ELSE bookings[b],
                    !.event = event, !.orderId = orderId,
                    !.isAuthentic = sigOk]
     IN IF WebhookRefused(sigOk)
        THEN Reject(r, "paymentWebhook", 400, "Invalid webhook signature", 0)
        ELSE IF event = "payment.captured"
        THEN IF b = 0
             THEN Reject(r, "paymentWebhook", 404, "Booking not found", 0)
             ELSE IF bookings[b].paymentStatus = "Completed"
             THEN Reject(r, "paymentWebhook", 200,
                         "Payment already processed", b)
             ELSE /\ req' = [req EXCEPT ![r] = [call EXCEPT !.pc = "cf_save",
                               !.populated = activityExists,
                               !.paymentId = paymentId, !.now = today,
                               !.method = MethodOrUnknown(method)]]
                  /\ UNCHANGED lastResp
        ELSE IF event # "payment.failed"
        THEN Reject(r, "paymentWebhook", 200, "Webhook received", 0)
        ELSE IF StillPending(bookings, b)
        THEN /\ req' = [req EXCEPT ![r] = [call EXCEPT !.pc = "wh_saveFailed"]]
             /\ UNCHANGED lastResp
        ELSE Reject(r, "paymentWebhook", 200, "Webhook received", b)
  /\ UNCHANGED <<availableSpots, bookings, today, nextOrder, nextToken,
                 notified, released, fixed>>

\* payment.failed: booking.paymentStatus = 'Failed'; await booking.save()
paymentWebhook_SaveFailed(r) ==
  /\ req[r].pc = "wh_saveFailed"
  /\ bookings' = SaveBooking(bookings, req[r].bid, req[r].orig,
                   MarkFailed(req[r].orig), {})
  /\ req' = [req EXCEPT ![r].pc = "rs_find"]
  /\ UNCHANGED <<availableSpots, today, nextOrder, nextToken, notified,
                 released, started, lastResp, fixed>>

\* ----------------------------------------------------------------- check-in
\* checks that look at the date before the payment
CheckInRefusal_DateFirst(doc, qrMatches, now) ==
  IF doc.bookingStatus # "Confirmed" THEN "Booking is not confirmed"
  ELSE IF doc.bookingDate # now THEN "This booking is not for today"
  ELSE IF doc.paymentStatus # "Completed" THEN "Payment not completed"
  ELSE IF doc.checkedIn THEN "Already checked in"
  ELSE IF ~qrMatches THEN "Invalid QR code"
  ELSE ""

\* steps 3-6 of scanQR, the "Validation checks" of verifyAndCheckIn: the
\* message of the first check that fails, "" if none does; qrMatches is
\* FALSE when the QR comparison of verifyAndCheckIn finds a difference
CheckInRefusal(doc, qrMatches, now) ==
  IF doc.bookingStatus # "Confirmed" THEN "Booking is not confirmed"
  ELSE IF doc.paymentStatus # "Completed" THEN "Payment not completed"
  ELSE IF doc.checkedIn THEN "Already checked in"
  ELSE IF ~qrMatches THEN "Invalid QR code"
  ELSE IF doc.bookingDate # now THEN "This booking is not for today"
  ELSE ""

\* "Update check-in status": the handler's copy after booking.checkedIn =
\* true; checkInTime = new Date(); checkInBy = req.user._id;
\* bookingStatus = 'Completed'
CheckedIn(orig, user, now) ==
  [orig EXCEPT !.checkedIn = TRUE, !.checkInTime = now, !.checkInBy = user,
               !.bookingStatus = "Completed"]

\* scanQR up to its save: the token is decrypted, the booking it names is
\* read with populate('activity') and checked (scanQR does not compare the
\* token with booking.qrData);
\* "Update check-in status" with checkInTime = new Date(); booking.save is
\* called
scanQR_Begin(r, token, user) ==
  /\ CanStart(r)
  /\ started' = started + 1
  /\ IF token = NoToken
     THEN Reject(r, "scanQR", 400, "QR data is required", 0)
     ELSE IF ~Decryptable(token)
     THEN Reject(r, "scanQR", 400, "Invalid or corrupted QR code", 0)
     ELSE LET b == decryptQRData(token).bookingId
          IN IF b \notin 1..Len(bookings)
             THEN Reject(r, "scanQR", 404, "Booking not found", 0)
             ELSE IF CheckInRefusal(bookings[b], TRUE, today) # ""
             THEN Reject(r, "scanQR", 400,
                         CheckInRefusal(bookings[b], TRUE, today), b)
             ELSE /\ req' = [req EXCEPT ![r] = [Idle EXCEPT !.op = "scanQR",
                               !.pc = "ci_save", !.bid = b, !.user = user,
                               !.now = today, !.orig = bookings[b],
                               !.populated = activityExists]]
                  /\ UNCHANGED lastResp
  /\ UNCHANGED <<availableSpots, bookings, today, nextOrder, nextToken,
                 notified, released, fixed>>

\* verifyAndCheckIn up to its save: the booking is read by id with
\* populate('activity') and checked;
\* a token, if one is sent, must equal booking.qrData; the check-in update
\* with checkInTime = new Date(); booking.save is called
verifyAndCheckIn_Begin(r, b, token, user) ==
  /\ CanStart(r)
  /\ started' = started + 1
  /\ IF b > Len(bookings)
     THEN Reject(r, "verifyAndCheckIn", 404, "Booking not found", 0)
     ELSE LET refusal == CheckInRefusal(bookings[b],
                           token = NoToken \/ bookings[b].qrData = token,
                           today)
          IN IF refusal # ""
             THEN Reject(r, "verifyAndCheckIn", 400, refusal, b)
             ELSE /\ req' = [req EXCEPT ![r] = [Idle EXCEPT
                               !.op = "verifyAndCheckIn", !.pc = "ci_save",
                               !.bid = b, !.user = user, !.now = today,
                               !.orig = bookings[b],
                               !.populated = activityExists]]
                  /\ UNCHANGED lastResp
  /\ UNCHANGED <<availableSpots, bookings, today, nextOrder, nextToken,
                 notified, released, fixed>>

\* the catch block of the handler whose response could not be built
CheckInError(op) ==
  IF op = "scanQR" THEN "Error processing QR code"
  ELSE "Error processing check-in"

\* await booking.save() of scanQR and of verifyAndCheckIn, then their 200,
\* which reads booking.activity.title: when populate found no activity
\* that throws and the catch block answers 500
checkIn_Save(r) ==
  /\ req[r].pc = "ci_save"
  /\ bookings' = SaveBooking(bookings, req[r].bid, req[r].orig,
                   CheckedIn(req[r].orig, req[r].user, req[r].now),
                   {"checkInTime"})
  /\ IF req[r].populated
     THEN Finish(r, 200, "Check-in successful", req[r].bid)
     ELSE Finish(r, 500, CheckInError(req[r].op), req[r].bid)
  /\ UNCHANGED <<availableSpots, today, nextOrder, nextToken, notified,
                 released, started, fixed>>

\* resendQR up to its first mail: Booking.findOne by number, e-mail and
\* phone (match) and the checks on the booking found;
\* emailService.sendBookingConfirmation is called
resendQR_Begin(r, b, match) ==
  /\ CanStart(r)
  /\ started' = started + 1
  /\ IF b > Len(bookings) \/ ~match
     THEN Reject(r, "resendQR", 404,
                 "Booking not found or details do not match", 0)
     ELSE IF bookings[b].bookingStatus # "Confirmed"
     THEN Reject(r, "resendQR", 400, "Booking is not confirmed yet", b)
     ELSE IF bookings[b].paymentStatus # "Completed"
     THEN Reject(r, "resendQR", 400, "Payment not completed", b)
     ELSE IF bookings[b].qrData = NoToken
     THEN Reject(r, "resendQR", 400, "QR code not generated yet", b)
     ELSE /\ req' = [req EXCEPT ![r] = [Idle EXCEPT !.op = "resendQR",
                       !.pc = "rq_email", !.bid = b, !.orig = bookings[b]]]
          /\ UNCHANGED lastResp
  /\ UNCHANGED <<availableSpots, bookings, today, nextOrder, nextToken,
                 notified, released, fixed>>

\* await emailService.sendBookingConfirmation(booking): the confirmation
\* mail is sent once more, or the service logs its error;
\* whatsappService.sendBookingConfirmation is called
resendQR_Email(r, sent) ==
  /\ req[r].pc = "rq_email"
  /\ ~sent => servicesFail
  /\ notified' = IF sent THEN [notified EXCEPT ![req[r].bid] = @ + 1]
                 ELSE notified
  /\ req' = [req EXCEPT ![r].pc = "rq_whatsapp"]
  /\ UNCHANGED <<availableSpots, bookings, today, nextOrder, nextToken,
                 released, started, lastResp, fixed>>

\* await whatsappService.sendBookingConfirmation(booking), which logs its
\* errors; then the 200
resendQR_WhatsApp(r) ==
  /\ req[r].pc = "rq_whatsapp"
  /\ Finish(r, 200, "QR code resent successfully via email and WhatsApp",
            req[r].bid)
  /\ UNCHANGED <<availableSpots, bookings, today, nextOrder, nextToken,
                 notified, released, started, fixed>>

\* ------------------------------------------------- editing the activity
\* the status values a request may carry: two of the enum and one that is
\* not
StatusValues == {"Active", "Inactive", "Archived"}

\* the bodies sent to updateActivity one request at a time: timeSlots with
\* one slot, a new maxParticipants, new dates or one of them, or a status
\* (no images are uploaded)
UpdateBodies ==
  {[NoUpdate EXCEPT !.timeSlots = <<Slot(w, k)>>] :
     w \in Windows, k \in {0, MaxCap}}
  \cup {[NoUpdate EXCEPT !.maxParticipants = m] : m \in 0..MaxAsk}
  \cup {[NoUpdate EXCEPT !.startDate = d, !.endDate = e] : d, e \in Days}
  \cup {[NoUpdate EXCEPT !.startDate = d] : d \in Days}
  \cup {[NoUpdate EXCEPT !.endDate = e] : e \in Days}
  \cup {[NoUpdate EXCEPT !.status = v] : v \in StatusValues}

\* the message of the catch block that answers 500 when the update hook
\* threw
UpdateErrorMessage(op, message) ==
  IF op = "updateActivity" THEN message
  ELSE IF op = "deleteActivity" THEN "Error deleting activity"
  ELSE "Error updating status"

\* the pre('findOneAndUpdate') hook after its await this.model.findOne():
\* nothing is checked when no document is found; a range that ends before
\* it starts is thrown to the handler's catch; otherwise the update is sent
PreUpdate(r, call) ==
  LET error == PreUpdateError(call.update, startDate, endDate, minAge,
                              maxAge)
  IN IF activityExists /\ error # ""
     THEN Reject(r, call.op, 500, UpdateErrorMessage(call.op, error), 0)
     ELSE /\ req' = [req EXCEPT ![r] = [call EXCEPT !.pc = "au_update"]]
          /\ UNCHANGED lastResp

\* updateActivity up to findByIdAndUpdate: Activity.findById, the 404, the
\* update document made of the body
updateActivity_Begin(r, body) ==
  /\ CanStart(r)
  /\ started' = started + 1
  /\ IF ~activityExists
     THEN Reject(r, "updateActivity", 404, "Activity not found", 0)
     ELSE /\ req' = [req EXCEPT ![r] = [Idle EXCEPT !.op = "updateActivity",
                       !.pc = "au_hook", !.update = body]]
          /\ UNCHANGED lastResp
  /\ UNCHANGED <<availableSpots, bookings, today, nextOrder, nextToken,
                 notified, released, fixed>>

\* deleteActivity up to its write: Activity.findById, the 404; a hard delete
\* calls findByIdAndDelete, a soft one findByIdAndUpdate with status
\* 'Cancelled' and isAvailable false
deleteActivity_Begin(r, hardDelete) ==
  /\ CanStart(r)
  /\ started' = started + 1
  /\ IF ~activityExists
     THEN Reject(r, "deleteActivity", 404, "Activity not found", 0)
     ELSE /\ req' = [req EXCEPT ![r] = [Idle EXCEPT !.op = "deleteActivity",
                       !.pc = IF hardDelete THEN "da_delete" ELSE "au_hook",
                       !.update = IF hardDelete THEN NoUpdate
                                  ELSE StatusUpdate("Cancelled")]]
          /\ UNCHANGED lastResp
  /\ UNCHANGED <<availableSpots, bookings, today, nextOrder, nextToken,
                 notified, released, fixed>>

\* await Activity.findByIdAndDelete(id), and the 200
deleteActivity_Delete(r) ==
  /\ req[r].pc = "da_delete"
  /\ activityExists' = FALSE
  /\ Finish(r, 200, "Activity permanently deleted successfully", 0)
  /\ UNCHANGED <<availableSpots, slotWindow, originalSpots, maxParticipants,
                 startDate, endDate, minAge, maxAge, status, isAvailable,
                 servicesFail, probe, bookings, today, nextOrder, nextToken,
                 notified, released, started>>

\* changeActivityStatus up to the update: the check of the status value,
\* then findByIdAndUpdate, whose hook reads the document
changeActivityStatus_Begin(r, newStatus) ==
  /\ CanStart(r)
  /\ started' = started + 1
  /\ IF newStatus \notin ActivityStatuses
     THEN Reject(r, "changeActivityStatus", 400, "Invalid status value", 0)
     ELSE PreUpdate(r, [Idle EXCEPT !.op = "changeActivityStatus",
                                    !.update = StatusUpdate(newStatus)])
  /\ UNCHANGED <<availableSpots, bookings, today, nextOrder, nextToken,
                 notified, released, fixed>>

\* the hook of the findByIdAndUpdate that updateActivity and a soft
\* deleteActivity called
activity_PreUpdate(r) ==
  /\ req[r].pc = "au_hook"
  /\ PreUpdate(r, req[r])
  /\ UNCHANGED <<availableSpots, bookings, today, nextOrder, nextToken,
                 notified, released, started, fixed>>

\* what the handler answers after its findByIdAndUpdate; found: the call
\* returned a document
UpdateResponse(op, found) ==
  IF op = "updateActivity" THEN Resp(op, 200, "Activity updated successfully", 0)
  ELSE IF op = "deleteActivity"
  THEN Resp(op, 200, "Activity soft deleted successfully", 0)
  ELSE IF found
  THEN Resp(op, 200, "Activity status updated successfully", 0)
  ELSE Resp(op, 404, "Activity not found", 0)

\* the paths of the activity an update document may set
ActivityPaths == <<availableSpots, slotWindow, maxParticipants, startDate,
                   endDate, minAge, maxAge, status, isAvailable>>

\* await Activity.findByIdAndUpdate(id, update): updateActivity runs the
\* validators on the update; the paths the update carries are set on the
\* stored document, if there is one (timeSlots replaces the whole array);
\* then the response
activity_Update(r) ==
  /\ req[r].pc = "au_update"
  /\ LET update == req[r].update
     IN IF req[r].op = "updateActivity" /\ ~UpdateValid(update)
        THEN /\ Finish(r, 400, "Validation Error", 0)
             /\ UNCHANGED ActivityPaths
        ELSE /\ req' = [req EXCEPT ![r] = Idle]
             /\ lastResp' = UpdateResponse(req[r].op, activityExists)
             /\ IF activityExists
                THEN /\ availableSpots' =
                          IF update.timeSlots # NoSlots
                          THEN update.timeSlots[1].availableSpots
                          ELSE availableSpots
                     /\ slotWindow' =
                          IF update.timeSlots # NoSlots
                          THEN update.timeSlots[1].window ELSE slotWindow
                     /\ maxParticipants' =
                          IF update.maxParticipants # NoValue
                          THEN update.maxParticipants ELSE maxParticipants
                     /\ startDate' = IF update.startDate # NoDate
                                     THEN update.startDate ELSE startDate
                     /\ endDate' = IF update.endDate # NoDate
                                   THEN update.endDate ELSE endDate
                     /\ minAge' = IF update.minAge # NoValue
                                  THEN update.minAge ELSE minAge
                     /\ maxAge' = IF update.maxAge # NoValue
                                  THEN update.maxAge ELSE maxAge
                     /\ status' = IF update.status # "" THEN update.status
                                  ELSE status
                     /\ isAvailable' = IF update.isAvailable # {}
                                       THEN TRUE \in update.isAvailable
                                       ELSE isAvailable
                ELSE UNCHANGED ActivityPaths
  /\ UNCHANGED <<originalSpots, activityExists, servicesFail, probe, bookings,
                 today, nextOrder, nextToken, notified, released, started>>

\* bulkUpdateStatus: the checks of the id array and of the status value,
\* await Activity.updateMany({_id: {$in: activityIds}}, {status,
\* isAvailable: status === 'Active'}), and the 200
bulkUpdateStatus(r, activityIds, newStatus) ==
  /\ CanStart(r)
  /\ started' = started + 1
  /\ req' = req
  /\ IF activityIds = {}
     THEN /\ lastResp' = Resp("bulkUpdateStatus", 400,
                               "Activity IDs array is required", 0)
          /\ UNCHANGED <<status, isAvailable>>
     ELSE IF newStatus \notin ActivityStatuses
     THEN /\ lastResp' = Resp("bulkUpdateStatus", 400,
                               "Invalid status value", 0)
          /\ UNCHANGED <<status, isAvailable>>
     ELSE /\ lastResp' = Resp("bulkUpdateStatus", 200,
                               "activities updated successfully", 0)
          /\ IF activityExists /\ ActivityId \in activityIds
             THEN /\ status' = newStatus
                  /\ isAvailable' = (newStatus = "Active")
             ELSE UNCHANGED <<status, isAvailable>>
  /\ UNCHANGED <<availableSpots, slotWindow, originalSpots, maxParticipants,
                 startDate, endDate, minAge, maxAge, activityExists,
                 servicesFail, probe, bookings, today, nextOrder, nextToken,
                 notified, released>>

\* a token of a booking that is not in the collection
StrayToken ==
  generateQRData(MaxBookings + 1,
                 NewBooking(FormatBookingNumber(0, 1), 1, Stamp(0, FALSE, 1),
                            0, 1), 0, 0)

\* a token with its last character changed
Corrupted(token) == [token EXCEPT ![Len(token)] = (@ + 1) % Radix]

\* the QR codes the customers hold
StoredTokens ==
  {bookings[b].qrData : b \in 1..Len(bookings)} \ {NoToken}

\* what may be shown to the scanner
ScanTokens ==
  {NoToken, StrayToken} \cup StoredTokens
  \cup {Corrupted(t) : t \in StoredTokens}

\* ------------------------------------------------------------- the clock
\* midnight: the server's calendar day changes
Tick ==
  /\ today < MaxDay
  /\ today' = today + 1
  /\ UNCHANGED <<availableSpots, bookings, req, nextOrder, nextToken,
                 notified, released, started, lastResp, fixed>>

\* ------------------------------------------------------------ behaviours
NoProbe == [seqIn |-> 0, number |-> NoNumber]

\* the database after the activity was configured, before any request
InitBase ==
  /\ originalSpots \in MinSpots..MaxCap
  /\ availableSpots = originalSpots
  /\ slotWindow = 1
  /\ maxParticipants = MaxAsk
  /\ minAge = NoValue
  /\ maxAge = NoValue
  /\ startDate \in Days
  /\ endDate \in startDate..MaxDay
  /\ status = "Active"
  /\ isAvailable = TRUE
  /\ activityExists = TRUE
  /\ servicesFail \in BOOLEAN
  /\ bookings = <<>>
  /\ req = [r \in Req |-> Idle]
  /\ today = 0
  /\ nextOrder = 0
  /\ nextToken = 0
  /\ notified = [b \in BookingIds |-> 0]
  /\ released = [b \in BookingIds |-> 0]
  /\ started = 0
  /\ lastResp = Resp("none", 0, "none", 0)

\* an activity with the largest slot that runs on every day
SeqInit ==
  /\ InitBase
  /\ probe = NoProbe
  /\ originalSpots = MaxCap
  /\ startDate = 0
  /\ endDate = MaxDay

\* an activity that runs on one day, with its services working
OneDayInit ==
  /\ InitBase
  /\ probe = NoProbe
  /\ startDate = MaxDay
  /\ ~servicesFail

\* such an activity with the largest slot
Init == OneDayInit /\ originalSpots = MaxCap

\* a request arrives and runs up to its first await
Arrive(r) ==
  \/ \E n \in Asks, docOk \in BOOLEAN, date \in Days, w \in Windows :
       createBooking_Begin(r, n, docOk, date, w)
  \/ \E b \in BookingIds : cancelBooking_Begin(r, b)
  \/ \E b \in BookingIds : createPaymentOrder_Begin(r, b)
  \/ \E b \in BookingIds, o \in 1..(nextOrder + 1), sigOk \in BOOLEAN :
       verifyPayment_Begin(r, b, o, 1, sigOk)
  \/ \E e \in WebhookEvents, o \in 0..(nextOrder + 1), sigOk \in BOOLEAN,
        m \in GatewayMethods : paymentWebhook_Begin(r, e, o, 1, sigOk, m)
  \/ \E token \in ScanTokens, user \in Staff : scanQR_Begin(r, token, user)
  \/ \E b \in BookingIds, token \in {NoToken, StrayToken} \cup StoredTokens,
        user \in Staff : verifyAndCheckIn_Begin(r, b, token, user)
  \/ \E b \in BookingIds, match \in BOOLEAN : resendQR_Begin(r, b, match)
  \/ \E body \in UpdateBodies : updateActivity_Begin(r, body)
  \/ \E hardDelete \in BOOLEAN : deleteActivity_Begin(r, hardDelete)
  \/ \E newStatus \in StatusValues : changeActivityStatus_Begin(r, newStatus)
  \/ \E activityIds \in SUBSET {ActivityId}, newStatus \in StatusValues :
       bulkUpdateStatus(r, activityIds, newStatus)

\* a handler in flight resumes after the await it was waiting on (these
\* bookings are made before the last millisecond of the day; UnitNext
\* makes bookings in it too)
Resume(r) ==
  \/ createBooking_SaveActivity(r)
  \/ createBooking_FindLast(r, FALSE)
  \/ createBooking_Create(r)
  \/ restoreSpots_Find(r)
  \/ restoreSpots_Save(r)
  \/ cancelBooking_SaveBooking(r)
  \/ \E created \in BOOLEAN : createPaymentOrder_Order(r, created)
  \/ createPaymentOrder_Save(r)
  \/ \E fetched \in GatewayMethods \cup {FetchFailed} :
       verifyPayment_Fetch(r, fetched)
  \/ verifyPayment_SaveFailed(r)
  \/ confirm_Save(r)
  \/ \E drawn \in BOOLEAN : generateAndSendQR_Image(r, drawn)
  \/ generateAndSendQR_Save(r)
  \/ \E sent \in BOOLEAN : generateAndSendQR_Email(r, sent)
  \/ generateAndSendQR_WhatsApp(r)
  \/ paymentWebhook_SaveFailed(r)
  \/ checkIn_Save(r)
  \/ \E sent \in BOOLEAN : resendQR_Email(r, sent)
  \/ resendQR_WhatsApp(r)
  \/ activity_PreUpdate(r)
  \/ activity_Update(r)
  \/ deleteActivity_Delete(r)

\* the requests that arrive while others are in flight: every handler, the
\* bookings for existing participants on the day of the activity, the
\* payment calls for the first order, the codes the customers hold, the
\* edits of the slot's counter, of maxParticipants and of the two ages
Together(r) ==
  \/ \E n \in MinParticipants..MaxAsk :
       createBooking_Begin(r, n, TRUE, MaxDay, 1)
  \/ \E b \in BookingIds : cancelBooking_Begin(r, b)
  \/ \E b \in BookingIds : createPaymentOrder_Begin(r, b)
  \/ \E b \in BookingIds, sigOk \in BOOLEAN :
       verifyPayment_Begin(r, b, 1, 1, sigOk)
  \/ \E e \in WebhookEvents, sigOk \in BOOLEAN :
       paymentWebhook_Begin(r, e, 1, 1, sigOk, "UPI")
  \/ \E token \in StoredTokens, user \in Staff : scanQR_Begin(r, token, user)
  \/ \E b \in BookingIds, user \in Staff :
       verifyAndCheckIn_Begin(r, b, NoToken, user)
  \/ \E b \in BookingIds : resendQR_Begin(r, b, TRUE)
  \/ \E body \in {[NoUpdate EXCEPT !.timeSlots = <<Slot(1, MaxCap)>>],
                   [NoUpdate EXCEPT !.maxParticipants = 1],
                   [NoUpdate EXCEPT !.minAge = MaxAge],
                   [NoUpdate EXCEPT !.maxAge = MaxAge - 1]} :
       updateActivity_Begin(r, body)
  \/ \E hardDelete \in BOOLEAN : deleteActivity_Begin(r, hardDelete)
  \/ changeActivityStatus_Begin(r, "Inactive")
  \/ bulkUpdateStatus(r, {ActivityId}, "Active")

Next == (\E r \in Req : Together(r) \/ Resume(r)) \/ Tick

\* concurrent request handlers
Spec == Init /\ [][Next]_vars

\* a handler in flight is resumed when its await settles: no handler waits
\* for ever, while no request has to arrive
FairSpec == Spec /\ \A r \in Req : WF_vars(Resume(r))

\* one request at a time: each handler runs to its response before the next
\* request arrives
SeqNext == Arrive(1) \/ Resume(1) \/ Tick

SeqSpec == SeqInit /\ [][SeqNext]_vars

\* only createBooking requests for one participant each on a date the
\* activity runs on, concurrently
UnitNext ==
  \E r \in Req :
    \/ \E date \in {d \in Days : d >= today /\ d >= startDate
                                    /\ d <= endDate} :
         createBooking_Begin(r, 1, TRUE, date, slotWindow)
    \/ createBooking_SaveActivity(r)
    \/ \E lastMs \in BOOLEAN : createBooking_FindLast(r, lastMs)
    \/ createBooking_Create(r)
    \/ Tick

UnitSpec == OneDayInit /\ [][UnitNext]_vars

\* the booking number that follows the number with sequence probe.seqIn,
\* as step 12 of createBooking computes it
probe_NextNumber ==
  /\ probe.number = NoNumber
  /\ probe' = [probe EXCEPT !.number = FormatBookingNumber(today,
                 NextSequence(FormatBookingNumber(today, probe.seqIn)))]
  /\ UNCHANGED <<availableSpots, slotWindow, originalSpots, maxParticipants,
                 startDate, endDate, minAge, maxAge, status, isAvailable,
                 activityExists, servicesFail, bookings, req, today,
                 nextOrder, nextToken, notified, released, started, lastResp>>

ProbeInit ==
  /\ InitBase
  /\ probe \in {[seqIn |-> s, number |-> NoNumber] :
                  s \in MinProbeSeq..MaxProbeSeq}

ProbeSpec == ProbeInit /\ [][probe_NextNumber]_vars

\* a payload is encrypted with a fresh IV, then the token is decrypted
NoPayload == QRPayload(0, NoDoc, 0)

probe_generateQRData ==
  /\ probe.step = "payload"
  /\ probe' = [probe EXCEPT !.step = "token",
                 !.token = EncryptQRData(probe.data, probe.iv)]
  /\ UNCHANGED <<availableSpots, slotWindow, originalSpots, maxParticipants,
                 startDate, endDate, minAge, maxAge, status, isAvailable,
                 activityExists, servicesFail, bookings, req, today,
                 nextOrder, nextToken, notified, released, started, lastResp>>

probe_decryptQRData ==
  /\ probe.step = "token"
  /\ probe' = IF Decryptable(probe.token)
              THEN [probe EXCEPT !.step = "decrypted",
                                 !.out = decryptQRData(probe.token)]
              ELSE [probe EXCEPT !.step = "thrown"]
  /\ UNCHANGED <<availableSpots, slotWindow, originalSpots, maxParticipants,
                 startDate, endDate, minAge, maxAge, status, isAvailable,
                 activityExists, servicesFail, bookings, req, today,
                 nextOrder, nextToken, notified, released, started, lastResp>>

\* the payloads of bookings 1 .. MaxBookings+1 with booking numbers on both
\* sides of the four-digit limit, under every IV
QrInit ==
  /\ InitBase
  /\ probe \in {[step |-> "payload", iv |-> iv, token |-> NoToken,
                  out |-> NoPayload,
                  data |-> QRPayload(b,
                             NewBooking(FormatBookingNumber(day, sequence),
                                        n, Stamp(day, FALSE, 1), date, 1),
                             now)] :
                  iv \in 0..(Radix - 1), b \in 1..(MaxBookings + 1),
                  n \in 1..MaxAsk, day \in Days, date \in Days, now \in Days,
                  sequence \in {1, 10 ^ PadWidth}}

QrSpec == QrInit /\ [][probe_generateQRData \/ probe_decryptQRData]_vars

\* ---------------------------------------------------------------- pricing
\* no discountPercentage on the activity
NoDiscount == -1

\* the pre-save hook of the Activity schema: priceAfterDiscount = price -
\* (price * discountPercentage) / 100 when both are set; a priceAfterDiscount
\* that is not set is NoDiscount (prices are multiples of 100, so that the
\* division is exact)
PriceAfterDiscount(price, discountPercentage) ==
  IF discountPercentage = NoDiscount THEN NoDiscount
  ELSE price - (price * discountPercentage) \div 100

\* step 10 of createBooking: activity.priceAfterDiscount || activity.price
\* takes the price when priceAfterDiscount is not set or is 0
PricePerPerson(price, priceAfterDiscount) ==
  IF priceAfterDiscount = NoDiscount \/ priceAfterDiscount = 0
  THEN price ELSE priceAfterDiscount

\* step 10 of createBooking
Pricing(price, priceAfterDiscount, n) ==
  LET pricePerPerson == PricePerPerson(price, priceAfterDiscount)
  IN [pricePerPerson |-> pricePerPerson,
      totalAmount |-> pricePerPerson * n,
      discountAmount |-> (price - pricePerPerson) * n,
      finalAmount |-> pricePerPerson * n]

NoPricing == Pricing(0, NoDiscount, 0)

\* the activity is saved, then a booking on it is priced
probe_PreSave ==
  /\ probe.step = "activity"
  /\ probe' = [probe EXCEPT !.step = "saved",
                 !.priceAfterDiscount =
                    PriceAfterDiscount(probe.price, probe.discountPercentage)]
  /\ UNCHANGED <<availableSpots, slotWindow, originalSpots, maxParticipants,
                 startDate, endDate, minAge, maxAge, status, isAvailable,
                 activityExists, servicesFail, bookings, req, today,
                 nextOrder, nextToken, notified, released, started, lastResp>>

probe_Pricing ==
  /\ probe.step = "saved"
  /\ probe' = [probe EXCEPT !.step = "priced",
                 !.pricing = Pricing(probe.price, probe.priceAfterDiscount,
                                     probe.n)]
  /\ UNCHANGED <<availableSpots, slotWindow, originalSpots, maxParticipants,
                 startDate, endDate, minAge, maxAge, status, isAvailable,
                 activityExists, servicesFail, bookings, req, today,
                 nextOrder, nextToken, notified, released, started, lastResp>>

\* the discounts an activity is configured with
Discounts == {NoDiscount, 0, 25, 50, 75, 100}

PriceInit ==
  /\ InitBase
  /\ probe \in {[step |-> "activity", price |-> price,
                  discountPercentage |-> d, n |-> n,
                  priceAfterDiscount |-> NoDiscount, pricing |-> NoPricing] :
                  price \in {100 * k : k \in 0..MaxPrice}, d \in Discounts,
                  n \in 1..MaxGroup}

PriceSpec == PriceInit /\ [][probe_PreSave \/ probe_Pricing]_vars

\* ------------------------------------------------------------- properties
AllIdle == \A r \in Req : req[r].pc = "idle"

RECURSIVE SoldSeats(_)
\* seats of the bookings that are paid and not cancelled
SoldSeats(bs) ==
  IF bs = <<>> THEN 0
  ELSE (IF Head(bs).paymentStatus = "Completed"
           /\ Head(bs).bookingStatus # "Cancelled" THEN Head(bs).n ELSE 0)
       + SoldSeats(Tail(bs))

\* the sequence a booking number shows after its last dash
SequenceOf(bookingNumber) == ParseInt(bookingNumber.suffix)

\* the first sequence number the padded field cannot hold
SeqLimit == 10 ^ PadWidth

\* C1: no overselling: the seats of the paid, not cancelled bookings of the
\* slot never exceed the capacity the slot was configured with.
C1_NoOverselling == SoldSeats(bookings) <= originalSpots

\* C2: the stored counter stays within 0 .. original capacity, whatever
\* reservations and releases interleave.
C2_SpotsWithinCapacity ==
  0 <= availableSpots /\ availableSpots <= originalSpots

\* C3: of N concurrent createBooking requests for one participant each on a
\* slot with k spots, N > k, exactly k succeed (UnitSpec: every request is
\* such a request).
C3_ExactlyKSucceed ==
  (AllIdle /\ started > originalSpots) => Len(bookings) = originalSpots

\* C4: run sequentially, a createBooking for exactly the c spots that are
\* left succeeds and leaves availableSpots = 0.
C4_FillSlot ==
  [][\A r \in Req :
       (req[r].op = "createBooking" /\ req[r].docOk
        /\ req[r].n >= MinParticipants /\ req[r].n = req[r].spotsRead
        /\ req'[r].pc = "idle")
       => (lastResp'.status = 201 /\ availableSpots' = 0)]_vars

\* booking b is paid, or its seats were added back to the slot
Resolved(b) ==
  /\ Len(bookings) >= b
  /\ bookings[b].paymentStatus = "Completed" \/ released[b] > 0

\* C5: every booking that holds seats is eventually paid (paymentStatus
\* Completed) or has its seats added back to the slot.
C5_ReservationResolved ==
  \A b \in BookingIds :
    [](Len(bookings) >= b => <>Resolved(b))

\* C6: a createBooking that ends without a booking leaves availableSpots at
\* the value it had before the call (one request at a time).
C6_CreateCompensates ==
  [][\A r \in Req :
       (req[r].op = "createBooking" /\ req'[r].pc = "idle"
        /\ lastResp'.status # 201)
       => availableSpots' = req[r].spotsRead]_vars

\* C7: no two createBooking requests compute the same booking number, and
\* none computes a number a stored booking already has.
C7_DistinctNumbers ==
  \A r \in Req :
    req[r].pc = "cb_create"
    => /\ ~NumberTaken(bookings, req[r].number)
       /\ \A q \in Req \ {r} :
            req[q].pc = "cb_create" => req[q].number # req[r].number

\* C8: per day, the first booking number issued has sequence 1 and each
\* later one a sequence above those issued before it that day.
C8_SequencePerDay ==
  \A i \in 1..Len(bookings) :
    LET day == bookings[i].bookingNumber.dateKey
        before == {j \in 1..(i - 1) : bookings[j].bookingNumber.dateKey = day}
    IN IF before = {}
       THEN SequenceOf(bookings[i].bookingNumber) = 1
       ELSE \A j \in before : SequenceOf(bookings[j].bookingNumber)
                                < SequenceOf(bookings[i].bookingNumber)

\* C9: past 9999 the sequence field is widened, not wrapped: the number
\* after sequence s >= 9999 shows s + 1.
C9_WidenNotWrap ==
  (probe.number # NoNumber /\ probe.seqIn + 1 >= SeqLimit)
  => SequenceOf(probe.number) = probe.seqIn + 1

\* what paymentWebhook answers to a signed payment.captured event whose
\* order id is on a booking
CapturedAnswers == {"Payment already processed",
                    "Webhook processed successfully",
                    "Webhook processing error"}

\* C10: every delivery of a signed payment.captured webhook for a booking's
\* order is answered 200 and leaves the booking paid, with its QR issued
\* (one request at a time).
C10_WebhookIdempotent ==
  (AllIdle /\ lastResp.op = "paymentWebhook"
   /\ lastResp.msg \in CapturedAnswers
   /\ bookings[lastResp.bid].razorpayOrderId # NoId)
  => /\ lastResp.status = 200
     /\ bookings[lastResp.bid].paymentStatus = "Completed"
     /\ bookings[lastResp.bid].qrData # NoToken

\* C11: verifyPayment with a valid signature on a booking that is already
\* paid (paymentStatus Completed when the handler read it) answers success
\* at once: it changes no field of the booking, sends no notification and
\* does not go on to issue a QR code.
C11_VerifyIdempotent ==
  [][\A r \in Req :
       (req[r].op = "verifyPayment" /\ req[r].pc = "cf_save"
        /\ req[r].orig.paymentStatus = "Completed")
       => /\ bookings' = bookings
          /\ notified' = notified
          /\ req'[r].pc = "idle"
          /\ lastResp'.status = 200]_vars

\* C12: whatever verifyPayment and payment.captured requests interleave,
\* the confirmation is applied once and generateAndSendQR runs at most once
\* for a booking: no handler enters generateAndSendQR, after its confirming
\* save, for a booking that a confirming save had stamped paidAt on before.
C12_ConfirmedOnce ==
  [][\A r \in Req :
       (req[r].pc = "cf_save" /\ req'[r].pc = "qr_image")
       => bookings[req[r].bid].paidAt = NoDate]_vars

\* the requests that are writing paymentStatus = Completed on booking b
Confirming(b) ==
  {r \in Req : req[r].pc = "cf_save" /\ req[r].bid = b}

\* C13: a step makes a booking's paymentStatus Completed only on behalf of
\* a verifyPayment or paymentWebhook request whose signature verified.
C13_OnlySignedConfirms ==
  [][\A b \in 1..Len(bookings) :
       (bookings[b].paymentStatus # "Completed"
        /\ bookings'[b].paymentStatus = "Completed")
       => \E r \in Confirming(b) :
            /\ req[r].op \in {"verifyPayment", "paymentWebhook"}
            /\ req[r].isAuthentic
            /\ req'[r] # req[r]]_vars

\* a booking was confirmed by a signed verifyPayment request
C13_Witness ==
  /\ AllIdle
  /\ lastResp.op = "verifyPayment" /\ lastResp.status = 200
  /\ bookings[lastResp.bid].paymentStatus = "Completed"

\* C14: a booking becomes paid only when an order id was stored on it, and
\* verifyPayment makes it paid only for that order id.
C14_OrderBound ==
  [][\A b \in 1..Len(bookings) :
       (bookings[b].paymentStatus # "Completed"
        /\ bookings'[b].paymentStatus = "Completed")
       => /\ bookings[b].razorpayOrderId # NoId
          /\ \A r \in Confirming(b) :
               (req[r].op = "verifyPayment" /\ req'[r] # req[r])
               => req[r].orderId = bookings[b].razorpayOrderId]_vars

\* request r takes the step
Steps(r) == req'[r] # req[r]

\* C15: on a signature mismatch verifyPayment marks the payment Failed and
\* answers 400; the booking's bookingStatus and the slot's availableSpots
\* stay as they were.
C15_MismatchKeepsSeats ==
  [][\A r \in Req :
       (req[r].pc = "vp_saveFailed" /\ Steps(r))
       => /\ bookings'[req[r].bid].paymentStatus = "Failed"
          /\ bookings'[req[r].bid].bookingStatus
               = bookings[req[r].bid].bookingStatus
          /\ availableSpots' = availableSpots
          /\ lastResp' = Resp("verifyPayment", 400,
                               "Payment verification failed", req[r].bid)]_vars

\* a mismatching verifyPayment was answered: payment Failed, booking still
\* Initiated, its seats still taken
C15_Witness ==
  /\ AllIdle
  /\ lastResp = Resp("verifyPayment", 400, "Payment verification failed", 1)
  /\ bookings[1].paymentStatus = "Failed"
  /\ bookings[1].bookingStatus = "Initiated"
  /\ released[1] = 0
  /\ availableSpots = originalSpots - bookings[1].n

\* C16: the payment.failed webhook touches a booking only while its
\* paymentStatus is Pending: it then marks the payment Failed and, unless
\* the activity was deleted, adds the booking's numberOfParticipants back
\* to the counter of the booking's slot; otherwise it changes neither the
\* booking nor the counter.
C16_FailedOnlyIfPending ==
  [][\A r \in Req :
       /\ (req[r].pc = "idle" /\ req'[r].pc = "idle" /\ started' # started
           /\ lastResp'.op = "paymentWebhook")
          => (bookings' = bookings /\ availableSpots' = availableSpots)
       /\ (req[r].pc = "idle" /\ req'[r].pc = "wh_saveFailed")
          => /\ bookings[req'[r].bid].paymentStatus = "Pending"
             /\ bookings' = bookings /\ availableSpots' = availableSpots
       /\ (req[r].pc = "wh_saveFailed" /\ Steps(r))
          => /\ bookings' = [bookings EXCEPT
                              ![req[r].bid].paymentStatus = "Failed"]
             /\ availableSpots' = availableSpots
             /\ req'[r].pc = "rs_find"
       /\ (req[r].op = "paymentWebhook" /\ req[r].pc = "rs_find"
           /\ Steps(r))
          => /\ bookings' = bookings /\ availableSpots' = availableSpots
             /\ activityExists => req'[r].pc = "rs_save"
       /\ (req[r].op = "paymentWebhook" /\ req[r].pc = "rs_save"
           /\ Steps(r))
          => /\ bookings' = bookings
             /\ availableSpots' = availableSpots + bookings[req[r].bid].n
             /\ lastResp' = Resp("paymentWebhook", 200, "Webhook received",
                                  req[r].bid)]_vars

\* C17: whatever payment.failed deliveries and cancelBooking calls a booking
\* receives, the seats added back to the slot for it are at most its
\* numberOfParticipants.
C17_ReleaseOnce ==
  \A b \in 1..Len(bookings) :
    released[b] * bookings[b].n <= bookings[b].n

\* C18: cancelBooking rejects a booking whose payment is Completed and
\* changes nothing; on any other booking it adds the booking's seats back
\* to the counter of the booking's slot, unless the activity was deleted,
\* and sets bookingStatus Cancelled.
C18_CancelRules ==
  [][\A r \in Req :
       /\ (req[r].pc = "idle" /\ req'[r].pc = "idle" /\ started' # started
           /\ lastResp'.op = "cancelBooking" /\ lastResp'.status = 400)
          => /\ bookings[lastResp'.bid].paymentStatus = "Completed"
             /\ bookings' = bookings /\ availableSpots' = availableSpots
       /\ (req[r].pc = "idle" /\ req'[r].op = "cancelBooking")
          => /\ bookings[req'[r].bid].paymentStatus # "Completed"
             /\ bookings' = bookings /\ availableSpots' = availableSpots
       /\ (req[r].op = "cancelBooking" /\ req[r].pc = "rs_find"
           /\ Steps(r))
          => /\ bookings' = bookings /\ availableSpots' = availableSpots
             /\ activityExists => req'[r].pc = "rs_save"
       /\ (req[r].op = "cancelBooking" /\ req[r].pc = "rs_save"
           /\ Steps(r))
          => /\ availableSpots' = availableSpots + bookings[req[r].bid].n
             /\ bookings' = bookings
             /\ req'[r].pc = "cn_saveBooking"
       /\ (req[r].pc = "cn_saveBooking" /\ Steps(r))
          => /\ bookings'[req[r].bid].bookingStatus = "Cancelled"
             /\ availableSpots' = availableSpots
             /\ lastResp' = Resp("cancelBooking", 200,
                                  "Booking cancelled successfully",
                                  req[r].bid)]_vars

\* the moves of bookingStatus the booking state machine allows
StatusMoves ==
  {<<"Initiated", "Confirmed">>, <<"Confirmed", "Completed">>,
   <<"Initiated", "Cancelled">>, <<"Confirmed", "Cancelled">>}

\* C19: every change of a booking's bookingStatus is a move of the state
\* machine; in particular a Cancelled or Completed booking keeps its status.
C19_StateMachine ==
  [][\A b \in 1..Len(bookings) :
       bookings'[b].bookingStatus # bookings[b].bookingStatus
       => <<bookings[b].bookingStatus, bookings'[b].bookingStatus>>
            \in StatusMoves]_vars

\* C20: when the payment.failed webhook has been processed for a Pending
\* booking, the booking is Cancelled and its seats are back in the slot.
C20_FailedCancels ==
  [][\A r \in Req :
       (req[r].op = "paymentWebhook" /\ req[r].pc = "rs_save" /\ Steps(r))
       => /\ availableSpots' = availableSpots + bookings[req[r].bid].n
          /\ bookings'[req[r].bid].bookingStatus = "Cancelled"]_vars

\* a request was answered in this step without having waited: one of the
\* checks before its first write turned it down
Refused(op) ==
  /\ req' = req
  /\ started' # started
  /\ lastResp'.op = op

\* C21: a scan of the credential of a booking that is already checked in
\* is answered "Already checked in" and changes nothing.
C21_SecondScanAlreadyRedeemed ==
  [][\A r \in Req :
       /\ (Refused("scanQR") /\ lastResp'.bid # 0
           /\ bookings[lastResp'.bid].checkedIn)
          => (lastResp'.msg = "Already checked in" /\ bookings' = bookings)
       /\ (req[r].pc = "idle" /\ req'[r].op = "scanQR")
          => ~bookings[req'[r].bid].checkedIn]_vars

\* C22: of the check-in requests for one booking at most one gets through
\* to the write: no request is about to write the check-in of a booking
\* that is checked in already or that another request is about to write.
C22_OneCheckIn ==
  \A r \in Req :
    req[r].pc = "ci_save"
    => /\ ~bookings[req[r].bid].checkedIn
       /\ \A q \in Req \ {r} :
            ~(req[q].pc = "ci_save" /\ req[q].bid = req[r].bid)

\* the error the ordered checks of the gate give for a stored booking
GateRefusal(doc, now) ==
  CASE doc.bookingStatus # "Confirmed" -> "Booking is not confirmed"
    [] doc.bookingStatus = "Confirmed" /\ doc.paymentStatus # "Completed"
         -> "Payment not completed"
    [] doc.bookingStatus = "Confirmed" /\ doc.paymentStatus = "Completed"
       /\ doc.checkedIn -> "Already checked in"
    [] doc.bookingStatus = "Confirmed" /\ doc.paymentStatus = "Completed"
       /\ ~doc.checkedIn /\ doc.bookingDate # now
         -> "This booking is not for today"
    [] OTHER -> ""

\* the scan was turned down with this answer and nothing was written
ScanRefused(code, msg, b) ==
  /\ lastResp' = Resp("scanQR", code, msg, b)
  /\ req' = req
  /\ bookings' = bookings
  /\ availableSpots' = availableSpots

C24_TokenStable ==
  [][\A b \in 1..Len(bookings) :
       bookings[b].qrData # NoToken
       => bookings'[b].qrData = bookings[b].qrData]_vars

\* C25: decryptQRData(generateQRData(booking)) does not throw and gives the
\* payload that was encrypted, whatever the IV.
C25_RoundTrip ==
  /\ probe.step # "thrown"
  /\ probe.step = "decrypted" => probe.out = probe.data

\* a token was decrypted whose booking number has five digits
C25_Witness ==
  /\ probe.step = "decrypted"
  /\ probe.out.bookingId = MaxBookings
  /\ Len(probe.out.bookingNumber.suffix) > PadWidth
  /\ probe.token # Stringify(probe.data)

\* C26: when the signature verified and the payment details could not be
\* fetched (the method is then 'Unknown'), verifyPayment still stores the
\* booking as Completed / Confirmed and goes on to its success answer.
C26_FetchFailureConfirms ==
  [][\A r \in Req :
       (req[r].op = "verifyPayment" /\ req[r].pc = "cf_save"
        /\ req[r].method = "Unknown" /\ Steps(r))
       => /\ bookings'[req[r].bid].paymentStatus = "Completed"
          /\ bookings'[req[r].bid].bookingStatus = "Confirmed"
          /\ \/ req'[r].pc = "qr_image"
             \/ lastResp' = Resp("verifyPayment", 200,
                                  AfterQR("verifyPayment"), req[r].bid)]_vars

\* the positions of a handler inside generateAndSendQR
QrSteps == {"qr_image", "qr_save", "qr_email", "qr_whatsapp"}

\* C27: once the save of the confirmation has stored the booking as
\* Completed / Confirmed, whatever generateAndSendQR does (its
\* generateQRData throws, no image is drawn, a mail is not sent) the
\* booking stays Completed / Confirmed through every step, and when
\* generateAndSendQR has ended the confirming request is answered 200
\* (one request at a time).
C27_IssueFailureKeepsConfirmation ==
  [][\A r \in Req :
       /\ (req[r].pc = "cf_save" /\ Steps(r) /\ bookings' # bookings)
          => /\ bookings'[req[r].bid].paymentStatus = "Completed"
             /\ bookings'[req[r].bid].bookingStatus = "Confirmed"
             /\ req'[r].pc \in {"qr_image", "idle"}
             /\ req'[r].pc = "idle"
                => lastResp' = Resp(req[r].op, 200, AfterQR(req[r].op),
                                     req[r].bid)
       /\ (req[r].pc \in QrSteps /\ Steps(r))
          => /\ bookings'[req[r].bid].paymentStatus = "Completed"
             /\ bookings'[req[r].bid].bookingStatus = "Confirmed"
             /\ req'[r].pc \in QrSteps \cup {"idle"}
             /\ req'[r].pc = "idle"
                => lastResp' = Resp(req[r].op, 200, AfterQR(req[r].op),
                                     req[r].bid)]_vars

\* a payment was confirmed although no QR could be issued: the activity
\* of the booking had been deleted, or no image was drawn
C27_Witness ==
  /\ AllIdle
  /\ lastResp = Resp("verifyPayment", 200, "Payment verified successfully", 1)
  /\ bookings[1].paymentStatus = "Completed"
  /\ bookings[1].bookingStatus = "Confirmed"
  /\ bookings[1].qrData = NoToken
  /\ notified[1] = 0

\* C28: every webhook whose signature verified is answered 200.
C28_WebhookAlways200 ==
  (lastResp.op = "paymentWebhook"
   /\ lastResp.msg # "Invalid webhook signature")
  => lastResp.status = 200

\* the price the claim gives: the discounted price when it is set, even 0
ClaimedPricePerPerson(price, priceAfterDiscount) ==
  IF priceAfterDiscount # NoDiscount THEN priceAfterDiscount ELSE price

\* C29: pricePerPerson is the discounted price when that is set (0
\* included), else the price; totalAmount = pricePerPerson * participants;
\* discountAmount = (price - discounted price) * participants; finalAmount
\* = totalAmount.
C29_Pricing ==
  probe.step = "priced"
  => LET perPerson == ClaimedPricePerPerson(probe.price,
                                            probe.priceAfterDiscount)
     IN /\ probe.pricing.pricePerPerson = perPerson
        /\ probe.pricing.totalAmount = perPerson * probe.n
        /\ probe.pricing.discountAmount
             = (probe.price - perPerson) * probe.n
        /\ probe.pricing.finalAmount = probe.pricing.totalAmount

\* C30: a createBooking that is turned down, at once or for a participant
\* count below 1, creates no booking and leaves availableSpots as it was
\* (one request at a time).
C30_RejectedCreateChangesNothing ==
  [][\A r \in Req :
       /\ Refused("createBooking")
          => (bookings' = bookings /\ availableSpots' = availableSpots)
       /\ (req[r].op = "createBooking" /\ req[r].n < MinParticipants
           /\ Steps(r))
          => /\ bookings' = bookings
             /\ availableSpots' = availableSpots
             /\ req'[r].pc = "idle" => lastResp'.status = 400]_vars

\* C31: a createBooking for one date leaves the spots available on every
\* other date as they were.
C31_CounterPerDate ==
  [][\A r \in Req :
       (req[r].op = "createBooking" /\ req[r].n >= MinParticipants
        /\ Steps(r))
       => \A d \in Days \ {req[r].date} :
            SlotSpots(availableSpots', d) = SlotSpots(availableSpots, d)]_vars

\* null of each payment reference field
PaymentRefNull ==
  [razorpayOrderId |-> NoId, razorpayPaymentId |-> NoId,
   paymentMethod |-> "null", paidAt |-> NoDate]

\* C32: a payment reference field that is set keeps its value.
C32_PaymentRefSetOnce ==
  [][\A b \in 1..Len(bookings), f \in DOMAIN PaymentRefNull :
       bookings[b][f] # PaymentRefNull[f]
       => bookings'[b][f] = bookings[b][f]]_vars

\* C33: a webhook whose signature does not verify is answered 400 at once,
\* no webhook handler runs on without a verified signature, and neither a
\* booking nor the slot counter changes.
C33_UnsignedWebhookChangesNothing ==
  [][\A r \in Req :
       /\ (Refused("paymentWebhook")
           /\ lastResp'.msg = "Invalid webhook signature")
          => (bookings' = bookings /\ availableSpots' = availableSpots
              /\ lastResp'.status = 400)
       /\ req'[r].op = "paymentWebhook" => req'[r].isAuthentic
       /\ (req[r].op = "paymentWebhook" /\ ~req[r].isAuthentic /\ Steps(r))
          => (bookings' = bookings /\ availableSpots' = availableSpots)]_vars

\* an unsigned webhook was turned down while a booking waited for its
\* payment under an order id the webhook could have named
C33_Witness ==
  /\ AllIdle
  /\ lastResp = Resp("paymentWebhook", 400, "Invalid webhook signature", 0)
  /\ \E b \in 1..Len(bookings) :
       /\ bookings[b].razorpayOrderId # NoId
       /\ bookings[b].paymentStatus = "Pending"
       /\ bookings[b].bookingStatus = "Initiated"
  /\ availableSpots < originalSpots

\* C34: a paymentStatus that is Completed stays Completed.
C34_CompletedStays ==
  [][\A b \in 1..Len(bookings) :
       bookings[b].paymentStatus = "Completed"
       => bookings'[b].paymentStatus = "Completed"]_vars

\* C35: a booking that is Confirmed, Completed or checked in is paid.
C35_ConfirmedIsPaid ==
  \A b \in 1..Len(bookings) :
    (bookings[b].bookingStatus \in {"Confirmed", "Completed"}
     \/ bookings[b].checkedIn)
    => bookings[b].paymentStatus = "Completed"

RECURSIVE SeatsHeld(_)
\* the participants of the first k bookings whose seats were not released
SeatsHeld(k) ==
  IF k = 0 THEN 0
  ELSE SeatsHeld(k - 1) + (IF released[k] = 0 THEN bookings[k].n ELSE 0)

\* C36: with no request in flight, the spots available and the seats held
\* by the bookings add up to the slot's capacity.
C36_CapacityConserved ==
  AllIdle => availableSpots + SeatsHeld(Len(bookings)) = originalSpots

\* C37: a booking whose seats were released is not confirmed afterwards.
C37_ReleasedNeverConfirmed ==
  [][\A b \in 1..Len(bookings) :
       (released[b] > 0 /\ bookings[b].bookingStatus # "Confirmed")
       => bookings'[b].bookingStatus # "Confirmed"]_vars

\* C38: createPaymentOrder goes on to the gateway and stores the order id
\* only for a booking that is Initiated and Pending; any other booking is
\* answered 400 and nothing changes; a gateway that issues no order leaves
\* the booking unchanged too (one request at a time).
C38_OrderOnlyForInitiatedPending ==
  [][\A r \in Req :
       /\ Refused("createPaymentOrder")
          => /\ bookings' = bookings /\ nextOrder' = nextOrder
             /\ lastResp'.status \in {400, 404}
             /\ lastResp'.bid # 0
                => ~(bookings[lastResp'.bid].bookingStatus = "Initiated"
                     /\ bookings[lastResp'.bid].paymentStatus = "Pending")
       /\ (req[r].pc = "idle" /\ req'[r].op = "createPaymentOrder")
          => /\ bookings[req'[r].bid].bookingStatus = "Initiated"
             /\ bookings[req'[r].bid].paymentStatus = "Pending"
             /\ bookings' = bookings
       /\ (req[r].pc = "po_order" /\ Steps(r))
          => /\ bookings' = bookings
             /\ req'[r].pc = "idle"
                => (nextOrder' = nextOrder /\ lastResp'.status = 500)
       /\ (req[r].pc = "po_save" /\ Steps(r))
          => /\ bookings' = [bookings EXCEPT ![req[r].bid].razorpayOrderId =
                               req[r].orderId]
             /\ lastResp' = Resp("createPaymentOrder", 200,
                                  "Payment order created successfully",
                                  req[r].bid)]_vars

\* a cancelled booking that had an order was refused a new one
C38_Witness ==
  /\ AllIdle
  /\ lastResp = Resp("createPaymentOrder", 400,
                     "This booking cannot be paid", 1)
  /\ bookings[1].bookingStatus = "Cancelled"
  /\ bookings[1].paymentStatus = "Pending"
  /\ bookings[1].razorpayOrderId # NoId
====
